---- MODULE Spec2Model ----
(***************************************************************************)
(* A model of reducedmachine.py: the symbol codec (int_to_symbols,         *)
(* symbols_to_int), the Electronic Store (EStore.valid/set/get/load) and   *)
(* the Reduced Machine (State, ReducedMachine.I / applyInstruction / next  *)
(* / run).                                                                 *)
(*                                                                         *)
(* Numbers.  Python integers are unbounded and the accumulator reaches     *)
(* 2^40, while TLC's integers are 32 bits wide.  A number that can exceed  *)
(* 2^20 is therefore held as two limbs [lo, hi] that denote                *)
(* hi * 2^20 + lo with 0 <= lo < 2^20 and hi any integer (negative for a   *)
(* negative number).  The limb operators below are exact integer           *)
(* arithmetic on that representation.  math.pow yields floats in the       *)
(* source; every value the model reaches is below 2^53 in magnitude, where *)
(* float arithmetic on integers is exact.                                  *)
(*                                                                         *)
(* Text.  A symbolic numeral is a sequence of one-character strings.  The  *)
(* last glyph of the alphabet, the pound sign in the source, is written    *)
(* "#" here: TLC does not keep characters outside ASCII intact in the      *)
(* states it stores.  "#" is no other glyph of the alphabet.               *)
(***************************************************************************)
EXTENDS Integers, Sequences, FiniteSets, TLC

\* ------------------------------------------------------------------------
\* Global machine settings (reducedmachine.py lines 25-39)
\* ------------------------------------------------------------------------

symbols ==
    << "/", "E", "@", "A", ":", "S", "I", "U", "8", "D", "R",
       "J", "N", "F", "C", "K", "T", "Z", "L", "W", "H", "Y",
       "P", "Q", "O", "B", "G", "\"", "M", "X", "V", "#" >>

symbolvalue ==
    5

linesize ==
    20

shortlinesize ==
    10

max_acc_symbols ==
    8

max_line_size ==
    2 ^ linesize

max_short_line_size ==
    2 ^ shortlinesize

\* ------------------------------------------------------------------------
\* Two-limb integers
\* ------------------------------------------------------------------------

\* The number hi * 2^20 + lo, with lo brought into 0 .. 2^20 - 1.
Norm(lo, hi) ==
    [lo |-> lo % max_line_size, hi |-> hi + (lo \div max_line_size)]

FromInt(x) ==
    Norm(x, 0)

\* Back to a TLC integer; exact while the value fits 32 bits.
ToInt(b) ==
    b.hi * max_line_size + b.lo

BigAdd(a, b) ==
    Norm(a.lo + b.lo, a.hi + b.hi)

BigSub(a, b) ==
    Norm(a.lo - b.lo, a.hi - b.hi)

BigTimes2(a) ==
    Norm(2 * a.lo, 2 * a.hi)

\* max_acc_size = math.pow(2, max_acc_symbols * symbolvalue) = 2^40
max_acc_size ==
    [lo |-> 0, hi |-> 2 ^ (max_acc_symbols * symbolvalue - linesize)]

\* a % max_acc_size: Python's non-negative residue
ModAcc(a) ==
    [lo |-> a.lo, hi |-> a.hi % max_acc_size.hi]

\* a % max_line_size
ModLine(a) ==
    a.lo

\* a < b and a >= b on two-limb integers
BigLess(a, b) ==
    a.hi < b.hi \/ (a.hi = b.hi /\ a.lo < b.lo)

BigGeq(a, b) ==
    ~BigLess(a, b)

\* math.pow(2, e) for 0 <= e < 51
Pow2(e) ==
    IF e < linesize
    THEN [lo |-> 2 ^ e, hi |-> 0]
    ELSE [lo |-> 0, hi |-> 2 ^ (e - linesize)]

\* k * 2^e for a symbol value k
Scaled(k, e) ==
    IF e < linesize
    THEN Norm(k * (2 ^ e), 0)
    ELSE [lo |-> 0, hi |-> k * (2 ^ (e - linesize))]

\* ------------------------------------------------------------------------
\* Symbol codec
\* ------------------------------------------------------------------------

\* symbols.index(s)
SymIndex(s) ==
    (CHOOSE i \in 1 .. Len(symbols) : symbols[i] = s) - 1

\* str.ljust(width, fill): pads on the right, never shortens
ljust(s, width, fill) ==
    IF Len(s) >= width
    THEN s
    ELSE s \o [i \in 1 .. (width - Len(s)) |-> fill]

\* the while loop of int_to_symbols: least-significant symbol first
RECURSIVE Digits(_)
Digits(n) ==
    IF n = 0
    THEN << >>
    ELSE << symbols[(n % Len(symbols)) + 1] >> \o Digits(n \div Len(symbols))

\* int_to_symbols with the padding on the wrong side (rjust for ljust)
int_to_symbols_rjust(n, size) ==
    LET d == Digits(ModLine(n))
    IN  IF Len(d) >= size
        THEN d
        ELSE [i \in 1 .. (size - Len(d)) |-> symbols[1]] \o d

\* int_to_symbols(n, size), n a two-limb integer
int_to_symbols(n, size) ==
    ljust(Digits(ModLine(n)), size, symbols[1])

\* symbols_to_int(sym): the running sum, i advancing by symbolvalue
RECURSIVE SymSum(_, _)
SymSum(sym, i) ==
    IF sym = << >>
    THEN FromInt(0)
    ELSE BigAdd(Scaled(SymIndex(Head(sym)), i),
                SymSum(Tail(sym), i + symbolvalue))

symbols_to_int(sym) ==
    SymSum(sym, 0)

\* ------------------------------------------------------------------------
\* Electronic Store
\* ------------------------------------------------------------------------

\* EStore.valid without the length test
valid_any_length(val, length) ==
    \A k \in 1 .. Len(val) : \E j \in 1 .. Len(symbols) : symbols[j] = val[k]

\* EStore.valid(val, length)
valid(val, length) ==
    /\ Len(val) <= length
    /\ \A k \in 1 .. Len(val) : \E j \in 1 .. Len(symbols) : symbols[j] = val[k]

\* textwrap.wrap(val, width) on text without whitespace or hyphens: the
\* text cut into pieces of width characters, the last one shorter; no piece
\* for the empty text.
RECURSIVE wrap(_, _)
wrap(val, width) ==
    IF Len(val) = 0
    THEN << >>
    ELSE IF Len(val) <= width
         THEN << val >>
         ELSE << SubSeq(val, 1, width) >> \o wrap(SubSeq(val, width + 1, Len(val)), width)

\* self.memory[key] = line
MemPut(mem, key, line) ==
    [k \in (DOMAIN mem) \cup {key} |-> IF k = key THEN line ELSE mem[k]]

\* NewLoc without the reduction modulo max_short_line_size
NewLoc_no_wrap(loc_int, i) ==
    int_to_symbols(FromInt(loc_int + i), shortlinesize \div symbolvalue)

\* the address written or read for offset i from loc_int (lines 91 and 110)
NewLoc(loc_int, i) ==
    int_to_symbols(FromInt((loc_int + i) % max_short_line_size),
                   shortlinesize \div symbolvalue)

\* the for loop of EStore.set over enumerate(val), from index i on
RECURSIVE SetLoop(_, _, _, _)
SetLoop(mem, loc_int, val, i) ==
    IF i >= Len(val)
    THEN mem
    ELSE SetLoop(MemPut(mem, NewLoc(loc_int, i),
                        ljust(val[i + 1], linesize \div symbolvalue, symbols[1])),
                 loc_int, val, i + 1)

\* the two assertions of EStore.set
SetAccepts(loc, val) ==
    /\ valid(loc, shortlinesize \div symbolvalue)
    /\ valid(val, (linesize \div symbolvalue) * 2)

\* EStore.set(loc, val) past its assertions: the memory afterwards
EStore_set(mem, loc, val) ==
    SetLoop(mem, ToInt(symbols_to_int(loc)),
            wrap(val, linesize \div symbolvalue), 0)

\* the for loop of EStore.get returning the default line of a missing
\* address without storing it
RECURSIVE GetLoop_not_stored(_, _, _, _)
GetLoop_not_stored(r, loc_int, lines, i) ==
    IF i >= lines
    THEN r
    ELSE LET newloc == NewLoc(loc_int, i)
             line   == IF newloc \in DOMAIN r.mem
                       THEN r.mem[newloc]
                       ELSE << "/", "/", "/", "/" >>
         IN  GetLoop_not_stored([mem |-> r.mem, output |-> r.output \o line],
                                loc_int, lines, i + 1)

\* the for loop of EStore.get over range(lines), from index i on;
\* r is [mem, output]
RECURSIVE GetLoop(_, _, _, _)
GetLoop(r, loc_int, lines, i) ==
    IF i >= lines
    THEN r
    ELSE LET newloc == NewLoc(loc_int, i)
             mem1   == IF newloc \in DOMAIN r.mem
                       THEN r.mem
                       ELSE MemPut(r.mem, newloc, << "/", "/", "/", "/" >>)
         IN  GetLoop([mem |-> mem1, output |-> r.output \o mem1[newloc]],
                     loc_int, lines, i + 1)

\* EStore.get(loc, lines) called with a number loc in 0 .. 1023, as every
\* caller in the program does (the address then encodes to 2 valid symbols
\* and the assertions hold): [mem |-> the memory afterwards,
\* output |-> the lines read, value |-> symbols_to_int(output)]
EStore_get(mem, loc, lines) ==
    LET r == GetLoop([mem |-> mem, output |-> << >>], loc, lines, 0)
    IN  [mem |-> r.mem, output |-> r.output, value |-> symbols_to_int(r.output)]

\* ------------------------------------------------------------------------
\* Bounds and inputs
\* ------------------------------------------------------------------------

\* --max-steps is drawn from 0 .. MaxSteps (0 = no limit)
MaxSteps ==
    3

\* with --max-steps 0 the model follows a run for at most MaxCycles cycles
MaxCycles ==
    4

\* A code file is a sequence of << address, value >> lines (what EStore.load
\* hands to EStore.set).  Operand addresses used by the one-line programs:
Operands ==
    { << "/", "/" >>, << "E", "/" >>, << "#", "#" >> }

\* the ten function codes of applyInstruction and three unrecognised ones
FuncSyms ==
    { << "/", "H" >>, << "/", "P" >>, << "/", "S" >>, << "T", "/" >>,
      << "T", ":" >>, << "T", "I" >>, << "T", "N" >>, << "T", "F" >>,
      << "T", "K" >>, << "T", "#" >>,
      << "/", "/" >>, << "H", "/" >>, << "#", "#" >> }

Instructions ==
    { o \o f : o \in Operands, f \in FuncSyms }

\* values EStore.set rejects: too long, or a character outside the alphabet
BadValues ==
    { << "/", "/", "T", "/", "/", "/", "/", "/", "E" >>, << "/", "t" >> }

BadLocs ==
    { << "/", "/", "/" >>, << "?" >> }

\* short and two-line values
DataValues ==
    { << "E" >>, << "#", "#", "/" >>,
      << "S", "/", "/", "/", "E", "/", "/", "/" >>,
      << "#", "#", "#", "#", "#", "#", "#", "#" >>,
      << "/", "/", "/", "/", "E" >>,
      << "A", "/", "T", "I", "A", "/", "T", "N" >>,
      << "/", "/", "T", ":", "@", "/", "T", "#" >> }

LoadLocs ==
    { << "/", "/" >>, << "#", "#" >>, << "E" >>, << "@", "/" >> }

\* every one-line code file over the sets above
OneLineFiles ==
    { << << l, v >> >> :
        l \in LoadLocs \cup BadLocs,
        v \in Instructions \cup DataValues \cup BadValues }

\* longer programs
Programs ==
    { \* a branch to the address before its own: the halting loop
      << << << "/", "/" >>, << "E", "/", "/", "P" >> >>,
         << << "E", "/" >>, << "#", "#", "/", "/" >> >> >>,
      \* load a 40-bit value, store it, load it back
      << << << "/", "/" >>, << "/", "/", "T", "/", "A", "/", "/", "S" >> >>,
         << << "@", "/" >>, << "A", "/", "T", "/" >> >> >>,
      \* clear, subtract 1, conditional branch
      << << << "/", "/" >>, << "/", "/", "T", ":", "A", "/", "T", "N" >> >>,
         << << "@", "/" >>, << ":", "/", "/", "H" >> >>,
         << << "A", "/" >>, << "E" >> >> >>,
      \* load 2^40 - 1, double, add
      << << << "/", "/" >>, << "A", "/", "T", "/", "A", "/", "T", "K" >> >>,
         << << "@", "/" >>, << "A", "/", "T", "I" >> >>,
         << << "A", "/" >>, << "#", "#", "#", "#", "#", "#", "#", "#" >> >> >>,
      \* a second line rejected after a first one was written
      << << << "#", "#" >>, << "E", "/", "T", "/", "E" >> >>,
         << << "/", "/" >>, << "/", "/", "T", "/", "/", "/", "/", "/", "E" >> >> >>,
      \* add 5 to the accumulator 0, subtract 5
      << << << "/", "/" >>, << "@", "/", "T", "I", "@", "/", "T", "N" >> >>,
         << << "@", "/" >>, << "S" >> >> >>,
      \* load 2^40 - 1, add 2^40 - 1, subtract 2^40 - 1
      << << << "/", "/" >>, << "A", "/", "T", "/", "A", "/", "T", "I" >> >>,
         << << "@", "/" >>, << "A", "/", "T", "N" >> >>,
         << << "A", "/" >>, << "#", "#", "#", "#", "#", "#", "#", "#" >> >> >>,
      \* the empty file
      << >> }

\* every program of two instructions written at address 0 by one file line
TwoInstructionFiles ==
    { << << << "/", "/" >>, i1 \o i2 >> >> : i1 \in Instructions, i2 \in Instructions }

Codefiles ==
    OneLineFiles \cup TwoInstructionFiles \cup Programs

\* ------------------------------------------------------------------------
\* State
\* ------------------------------------------------------------------------

VARIABLES
    A,          \* State.A, a two-limb integer
    C,          \* State.C
    S,          \* State.S
    memory,     \* EStore.memory: address text -> line text
    codefile,   \* the lines of the code file given on the command line
    loaded,     \* how many of them EStore.load has passed to EStore.set
    steps,      \* run's parameter (args.max_steps)
    n,          \* run's local n
    Cprev,      \* run's local C (the program counter saved before next())
    pc,         \* where the script is: "load", "loop", "fetch", "apply",
                \* "check", "done" (after print("HALT")), "crashed" (an
                \* exception left the script)
    err,        \* the exception that ended the script, if any
    output,     \* what print() has written
    memdump,    \* whether --memdump was given (self.memdump != None)
    dumpfile,   \* what this run has appended to the memdump file: one
                \* record per "Step n" block
    rows,       \* one record per instruction that reached the printn at the
                \* end of applyInstruction: the row it prints (n, line_no,
                \* instr, acc_symbols, changed_memory) and, as history, the
                \* accumulator on entry in full (A)
    cpc, cnum, cwidth, csym, cout   \* the codec exercised on its own

vars ==
    << A, C, S, memory, codefile, loaded, steps, n, Cprev, pc, err, output,
       rows, memdump, dumpfile, cpc, cnum, cwidth, csym, cout >>

machine_vars ==
    << A, C, S, memory, codefile, loaded, steps, n, Cprev, pc, err, output,
       rows, memdump, dumpfile >>

dump_vars ==
    << memdump, dumpfile >>

codec_vars ==
    << cpc, cnum, cwidth, csym, cout >>

NoError ==
    [kind |-> "none", msg |-> << "", << >>, "" >>]

CodecIdle ==
    /\ cpc = "idle"
    /\ cnum = FromInt(0)
    /\ cwidth = 0
    /\ csym = << >>
    /\ cout = << >>

\* e_store = EStore(); state = State(0, e_store): C defaults to
\* max_short_line_size - 1, S to 0
Init ==
    /\ A = FromInt(0)
    /\ C = max_short_line_size - 1
    /\ S = 0
    /\ memory = << >>
    /\ codefile \in Codefiles
    /\ loaded = 0
    /\ steps \in 0 .. MaxSteps
    /\ n = 0
    /\ Cprev = max_short_line_size - 1
    /\ pc = "load"
    /\ err = NoError
    /\ output = << >>
    /\ rows = << >>
    /\ memdump \in BOOLEAN
    /\ dumpfile = << >>
    /\ CodecIdle

\* ------------------------------------------------------------------------
\* EStore.load
\* ------------------------------------------------------------------------

\* one line of the file: self.set(args[0], args[1]) goes through
load_set ==
    /\ pc = "load"
    /\ loaded < Len(codefile)
    /\ LET line == codefile[loaded + 1]
       IN  /\ SetAccepts(line[1], line[2])
           /\ memory' = EStore_set(memory, line[1], line[2])
    /\ loaded' = loaded + 1
    /\ UNCHANGED << A, C, S, codefile, steps, n, Cprev, pc, err, output, rows >>
    /\ UNCHANGED dump_vars
    /\ UNCHANGED codec_vars

\* one line of the file: an assertion of EStore.set fails
load_reject ==
    /\ pc = "load"
    /\ loaded < Len(codefile)
    /\ LET line == codefile[loaded + 1]
       IN  ~SetAccepts(line[1], line[2])
    /\ pc' = "crashed"
    /\ err' = [kind |-> "AssertionError", msg |-> << "", << >>, "" >>]
    /\ UNCHANGED << A, C, S, memory, codefile, loaded, steps, n, Cprev, output, rows >>
    /\ UNCHANGED dump_vars
    /\ UNCHANGED codec_vars

\* the file is read; rm.run(args.max_steps) starts with n = 0
run_start ==
    /\ pc = "load"
    /\ loaded = Len(codefile)
    /\ n' = 0
    /\ pc' = "loop"
    /\ UNCHANGED << A, C, S, memory, codefile, loaded, steps, Cprev, err, output, rows >>
    /\ UNCHANGED dump_vars
    /\ UNCHANGED codec_vars

\* ------------------------------------------------------------------------
\* ReducedMachine.run: the while loop
\* ------------------------------------------------------------------------

\* the loop condition off by one: n <= steps
LoopCondition_off_by_one ==
    n <= steps \/ steps = 0

\* while(n < steps or steps == 0)
LoopCondition ==
    n < steps \/ steps = 0

\* EStore.dump(): one text "address line" for every entry of self.memory.
\* The order of the texts, the dictionary's insertion order, is left out.
dump(mem) ==
    { k \o << " " >> \o mem[k] : k \in DOMAIN mem }

\* the block written with the step label one ahead
memdump_write_next_label ==
    IF memdump
    THEN Append(dumpfile, [step |-> n + 1, lines |-> dump(memory)])
    ELSE dumpfile

\* if self.memdump != None: "Step " + str(n), then the lines of dump(), are
\* appended to the file
memdump_write ==
    IF memdump
    THEN Append(dumpfile, [step |-> n, lines |-> dump(memory)])
    ELSE dumpfile

\* the loop body is entered: the memory dump, C = self.state.C, then
\* self.next(n)
loop_enter ==
    /\ pc = "loop"
    /\ LoopCondition
    /\ steps = 0 => n < MaxCycles
    /\ dumpfile' = memdump_write
    /\ Cprev' = C
    /\ pc' = "fetch"
    /\ UNCHANGED << A, C, S, memory, codefile, loaded, steps, n, err, output, rows >>
    /\ UNCHANGED memdump
    /\ UNCHANGED codec_vars

\* the loop condition is false: print("HALT")
loop_exit ==
    /\ pc = "loop"
    /\ ~LoopCondition
    /\ output' = Append(output, "HALT")
    /\ pc' = "done"
    /\ UNCHANGED << A, C, S, memory, codefile, loaded, steps, n, Cprev, err, rows >>
    /\ UNCHANGED dump_vars
    /\ UNCHANGED codec_vars

\* the comparison made against the address of the instruction just executed
\* instead of the program counter saved before the fetch
HaltingLoopDetected_own_address ==
    C = (Cprev + 1) % max_short_line_size

\* if C == self.state.C
HaltingLoopDetected ==
    Cprev = C

\* print("Halting loop detected."); break; then print("HALT")
halting_loop ==
    /\ pc = "check"
    /\ HaltingLoopDetected
    /\ output' = output \o << "Halting loop detected.", "HALT" >>
    /\ pc' = "done"
    /\ UNCHANGED << A, C, S, memory, codefile, loaded, steps, n, Cprev, err, rows >>
    /\ UNCHANGED dump_vars
    /\ UNCHANGED codec_vars

\* otherwise n += 1 and back to the loop condition
loop_next ==
    /\ pc = "check"
    /\ ~HaltingLoopDetected
    /\ n' = n + 1
    /\ pc' = "loop"
    /\ UNCHANGED << A, C, S, memory, codefile, loaded, steps, Cprev, err, output, rows >>
    /\ UNCHANGED dump_vars
    /\ UNCHANGED codec_vars

run ==
    loop_enter \/ loop_exit \/ halting_loop \/ loop_next

\* ------------------------------------------------------------------------
\* ReducedMachine.I: fetch
\* ------------------------------------------------------------------------

\* the increment without the reduction modulo max_short_line_size
NextC_no_wrap ==
    C + 1

\* the program counter after the increment
NextC ==
    (C + 1) % max_short_line_size

\* the fetch reading the line at C without incrementing C
I_without_increment ==
    /\ pc = "fetch"
    /\ LET g == EStore_get(memory, C, 1)
       IN  /\ S' = ToInt(g.value)
           /\ memory' = g.mem
    /\ pc' = "apply"
    /\ UNCHANGED << A, C, codefile, loaded, steps, n, Cprev, err, output, rows >>
    /\ UNCHANGED dump_vars
    /\ UNCHANGED codec_vars

I ==
    /\ pc = "fetch"
    /\ C' = NextC
    /\ LET g == EStore_get(memory, NextC, 1)
       IN  /\ S' = ToInt(g.value)
           /\ memory' = g.mem
    /\ pc' = "apply"
    /\ UNCHANGED << A, codefile, loaded, steps, n, Cprev, err, output, rows >>
    /\ UNCHANGED dump_vars
    /\ UNCHANGED codec_vars

\* ------------------------------------------------------------------------
\* ReducedMachine.applyInstruction
\* ------------------------------------------------------------------------

instr ==
    int_to_symbols(FromInt(S), linesize \div symbolvalue)

line_pair ==
    SubSeq(instr, 1, shortlinesize \div symbolvalue)

func_sym ==
    SubSeq(instr, (shortlinesize \div symbolvalue) + 1, Len(instr))

\* s_data = self.state.e_store.get(self.state.S % max_short_line_size)
get_s_data ==
    EStore_get(memory, S % max_short_line_size, 1)

s_data ==
    ToInt(get_s_data.value)

\* s_pair_data = self.state.e_store.get(self.state.S % max_short_line_size, 2)
get_s_pair_data ==
    EStore_get(get_s_data.mem, S % max_short_line_size, 2)

s_pair_data ==
    get_s_pair_data.value

\* the accumulator encoded in full: the low 20 bits in the first four
\* symbols, the high 20 bits in the last four
acc_symbols_full_width ==
    int_to_symbols(FromInt(A.lo), linesize \div symbolvalue)
        \o int_to_symbols(FromInt(A.hi % max_line_size), linesize \div symbolvalue)

acc_symbols ==
    int_to_symbols(A, max_acc_symbols)

line_no ==
    int_to_symbols(FromInt(C), shortlinesize \div symbolvalue)

\* the row printn writes at the end of applyInstruction; line_no, instr and
\* acc_symbols were computed on entry
Row(changed_memory) ==
    [n |-> n, line_no |-> line_no, instr |-> instr, acc_symbols |-> acc_symbols,
     changed_memory |-> changed_memory, A |-> A]

\* what every branch of the case split that returns shares: the state is at
\* the call of applyInstruction, the row is printed, and the method returns
\* to run
Applies(code, changed_memory) ==
    /\ pc = "apply"
    /\ func_sym = code
    /\ rows' = Append(rows, Row(changed_memory))
    /\ pc' = "check"
    /\ UNCHANGED << codefile, loaded, steps, n, Cprev, err, output >>
    /\ UNCHANGED dump_vars
    /\ UNCHANGED codec_vars

\* "/H": C' = S unless 2^40 > A >= 2^39
apply_H ==
    /\ Applies(<< "/", "H" >>, << >>)
    /\ C' = IF ~(BigLess(A, Pow2(40)) /\ BigGeq(A, Pow2(39)))
            THEN s_data % max_short_line_size
            ELSE C
    /\ memory' = get_s_pair_data.mem
    /\ UNCHANGED << A, S >>

\* "/P": C' = S
apply_P ==
    /\ Applies(<< "/", "P" >>, << >>)
    /\ C' = s_data % max_short_line_size
    /\ memory' = get_s_pair_data.mem
    /\ UNCHANGED << A, S >>

\* "/S": S' = A
apply_S ==
    /\ Applies(<< "/", "S" >>, << line_pair, acc_symbols >>)
    /\ S' = ModLine(A)
    /\ memory' = EStore_set(get_s_pair_data.mem, line_pair, acc_symbols)
    /\ UNCHANGED << A, C >>

\* "T/": A' = S
apply_T_load ==
    /\ Applies(<< "T", "/" >>, << >>)
    /\ A' = ModAcc(s_pair_data)
    /\ memory' = get_s_pair_data.mem
    /\ UNCHANGED << C, S >>

\* "T:": A' = 0
apply_T_clear ==
    /\ Applies(<< "T", ":" >>, << >>)
    /\ A' = FromInt(0)
    /\ memory' = get_s_pair_data.mem
    /\ UNCHANGED << C, S >>

\* "TI" with the sum reduced modulo max_acc_size
apply_TI_reduced ==
    /\ Applies(<< "T", "I" >>, << >>)
    /\ A' = ModAcc(BigAdd(A, ModAcc(s_pair_data)))
    /\ memory' = get_s_pair_data.mem
    /\ UNCHANGED << C, S >>

\* "TI": A' = A + S
apply_TI ==
    /\ Applies(<< "T", "I" >>, << >>)
    /\ A' = BigAdd(A, ModAcc(s_pair_data))
    /\ memory' = get_s_pair_data.mem
    /\ UNCHANGED << C, S >>

\* "TN": A' = A - S
apply_TN ==
    /\ Applies(<< "T", "N" >>, << >>)
    /\ A' = BigSub(A, ModAcc(s_pair_data))
    /\ memory' = get_s_pair_data.mem
    /\ UNCHANGED << C, S >>

\* "TK" without the reduction modulo max_acc_size
apply_TK_not_reduced ==
    /\ Applies(<< "T", "K" >>, << >>)
    /\ A' = BigTimes2(s_pair_data)
    /\ memory' = get_s_pair_data.mem
    /\ UNCHANGED << C, S >>

\* "TK": A' = 2S
apply_TK ==
    /\ Applies(<< "T", "K" >>, << >>)
    /\ A' = ModAcc(BigTimes2(s_pair_data))
    /\ memory' = get_s_pair_data.mem
    /\ UNCHANGED << C, S >>

\* "T#" (T and the pound sign): no effect
apply_T_noop ==
    /\ Applies(<< "T", "#" >>, << >>)
    /\ memory' = get_s_pair_data.mem
    /\ UNCHANGED << A, C, S >>

\* what the two raise statements share: the exception leaves applyInstruction,
\* next and run; nothing catches it
Raises(e) ==
    /\ pc = "apply"
    /\ pc' = "crashed"
    /\ err' = e
    /\ memory' = get_s_pair_data.mem
    /\ UNCHANGED << A, C, S, codefile, loaded, steps, n, Cprev, output, rows >>
    /\ UNCHANGED dump_vars
    /\ UNCHANGED codec_vars

\* "TF": raise InvalidInstructionError("TF currently unimplemented")
apply_TF ==
    /\ func_sym = << "T", "F" >>
    /\ Raises([kind |-> "InvalidInstructionError",
               msg  |-> << "TF currently unimplemented", << >>, "" >>])

RecognisedCodes ==
    { << "/", "H" >>, << "/", "P" >>, << "/", "S" >>, << "T", "/" >>,
      << "T", ":" >>, << "T", "I" >>, << "T", "N" >>, << "T", "F" >>,
      << "T", "K" >>, << "T", "#" >> }

\* the else branch falling through like the no-op instead of raising
apply_else_falls_through ==
    /\ pc = "apply"
    /\ func_sym \notin RecognisedCodes
    /\ rows' = Append(rows, Row(<< >>))
    /\ pc' = "check"
    /\ memory' = get_s_pair_data.mem
    /\ UNCHANGED << A, C, S, codefile, loaded, steps, n, Cprev, err, output >>
    /\ UNCHANGED dump_vars
    /\ UNCHANGED codec_vars

\* else: raise InvalidInstructionError("Instruction " + instr + " does not exist!")
apply_else ==
    /\ func_sym \notin RecognisedCodes
    /\ Raises([kind |-> "InvalidInstructionError",
               msg  |-> << "Instruction ", instr, " does not exist!" >>])

applyInstruction ==
    \/ apply_H
    \/ apply_P
    \/ apply_S
    \/ apply_T_load
    \/ apply_T_clear
    \/ apply_TI
    \/ apply_TN
    \/ apply_TF
    \/ apply_TK
    \/ apply_T_noop
    \/ apply_else

\* ------------------------------------------------------------------------
\* The script
\* ------------------------------------------------------------------------

Next ==
    \/ load_set
    \/ load_reject
    \/ run_start
    \/ run
    \/ I
    \/ applyInstruction

Spec ==
    Init /\ [][Next]_vars

\* ------------------------------------------------------------------------
\* The codec on its own: int_to_symbols and symbols_to_int applied to
\* inputs drawn from bounded sets
\* ------------------------------------------------------------------------

MaxCodecInt ==
    40

MaxWidth ==
    8

MaxSymLen ==
    8

\* low limbs: a run of small numbers, the neighbours of every power of 32
\* below 2^20, and 2^20 - 1
CodecLows ==
    (0 .. MaxCodecInt)
        \cup { (32 ^ k) + d : k \in 1 .. 3, d \in {-1, 0, 1} }
        \cup { max_line_size - 1 }

\* high limbs: negative numbers, numbers below 2^20, numbers of 2^20 and more
CodecHighs ==
    { -1, 0, 1 }

CodecInts ==
    { [lo |-> l, hi |-> h] : l \in CodecLows, h \in CodecHighs }

CodecAlphabet ==
    { "/", "E", "#" }

CodecSyms ==
    UNION { [1 .. k -> CodecAlphabet] : k \in 0 .. MaxSymLen }

CodecInit ==
    /\ A = FromInt(0)
    /\ C = max_short_line_size - 1
    /\ S = 0
    /\ memory = << >>
    /\ codefile = << >>
    /\ loaded = 0
    /\ steps = 0
    /\ n = 0
    /\ Cprev = max_short_line_size - 1
    /\ pc = "load"
    /\ err = NoError
    /\ output = << >>
    /\ rows = << >>
    /\ memdump = FALSE
    /\ dumpfile = << >>
    /\ cout = [num |-> FromInt(0), sym |-> << >>]
    /\ \/ /\ cpc = "int"
          /\ cnum \in CodecInts
          /\ cwidth \in 0 .. MaxWidth
          /\ csym = << >>
       \/ /\ cpc = "sym"
          /\ csym \in CodecSyms
          /\ cwidth = Len(csym)
          /\ cnum = FromInt(0)

\* csym = int_to_symbols(cnum, cwidth)
codec_encode ==
    /\ cpc = "int"
    /\ csym' = int_to_symbols(cnum, cwidth)
    /\ cpc' = "int_enc"
    /\ UNCHANGED << cnum, cwidth, cout >>
    /\ UNCHANGED machine_vars

\* symbols_to_int of that text
codec_decode_back ==
    /\ cpc = "int_enc"
    /\ cout' = [cout EXCEPT !.num = symbols_to_int(csym)]
    /\ cpc' = "int_enc_dec"
    /\ UNCHANGED << cnum, cwidth, csym >>
    /\ UNCHANGED machine_vars

\* cnum = symbols_to_int(csym)
codec_decode ==
    /\ cpc = "sym"
    /\ cnum' = symbols_to_int(csym)
    /\ cpc' = "sym_dec"
    /\ UNCHANGED << cwidth, csym, cout >>
    /\ UNCHANGED machine_vars

\* int_to_symbols of that number, at the width of the text
codec_encode_back ==
    /\ cpc = "sym_dec"
    /\ cout' = [cout EXCEPT !.sym = int_to_symbols(cnum, Len(csym))]
    /\ cpc' = "sym_dec_enc"
    /\ UNCHANGED << cnum, cwidth, csym >>
    /\ UNCHANGED machine_vars

CodecNext ==
    \/ codec_encode
    \/ codec_decode_back
    \/ codec_decode
    \/ codec_encode_back

SpecCodec ==
    CodecInit /\ [][CodecNext]_vars

\* ------------------------------------------------------------------------
\* Properties
\* ------------------------------------------------------------------------

Halted ==
    \E k \in 1 .. Len(output) : output[k] = "Halting loop detected."

\* the function code of a printed row
RowFunc(r) ==
    SubSeq(r.instr, 3, 4)

\* the operand field of a printed row
RowOperand(r) ==
    SubSeq(r.instr, 1, 2)

\* the store as EStore.load leaves it when every line of the file is accepted
RECURSIVE LoadedStore(_, _)
LoadedStore(file, k) ==
    IF k = 0
    THEN << >>
    ELSE EStore_set(LoadedStore(file, k - 1), file[k][1], file[k][2])

AllAccepted ==
    \A k \in 1 .. Len(codefile) : SetAccepts(codefile[k][1], codefile[k][2])

\* The target (s_data mod 1024) of an unconditional branch that the loaded
\* store holds at address 0, or -1 when the store holds no such instruction
FirstBranchTarget ==
    IF ~AllAccepted
    THEN -1
    ELSE LET m == LoadedStore(codefile, Len(codefile))
             zero == << "/", "/" >>
         IN  IF zero \notin DOMAIN m
             THEN -1
             ELSE IF SubSeq(m[zero], 3, 4) # << "/", "P" >>
                  THEN -1
                  ELSE LET key  == SubSeq(m[zero], 1, 2)
                           line == IF key \in DOMAIN m
                                   THEN m[key]
                                   ELSE << "/", "/", "/", "/" >>
                       IN  ToInt(symbols_to_int(line)) % 1024

WrittenLines ==
    IF AllAccepted
    THEN Cardinality(DOMAIN LoadedStore(codefile, Len(codefile)))
    ELSE 0

\* C1 as stated: from the initial state, with a store of exactly one written
\* line, an unconditional branch at address 0 whose target is its own address
\* 0, the run (here without a step bound) halts by halting-loop detection
\* after exactly one executed cycle with the accumulator still 0: no second
\* cycle starts, nothing is raised, and the run ends with the halting message.
C1_Original ==
    (FirstBranchTarget = 0 /\ WrittenLines = 1 /\ steps = 0)
        => /\ n = 0
           /\ pc # "crashed"
           /\ A = FromInt(0)
           /\ pc = "done" => Halted

\* C1 amended: an unconditional branch at address 0 whose target is 1023, the
\* program counter before the fetch (its own address minus 1 modulo 1024),
\* halts the run by halting-loop detection after exactly one executed cycle
\* with the accumulator still 0; with any other target, its own address 0
\* included, the first cycle does not end the run.
C1_HaltingLoop ==
    /\ FirstBranchTarget = 1023
         => /\ n = 0
            /\ Len(rows) <= 1
            /\ pc # "crashed"
            /\ A = FromInt(0)
            /\ pc = "done" => output = << "Halting loop detected.", "HALT" >>
    /\ (FirstBranchTarget >= 0 /\ FirstBranchTarget # 1023)
         => /\ ~(pc = "done" /\ n = 0)
            /\ n = 0 => ~Halted
            /\ Len(rows) <= 1 => A = FromInt(0)

C1_Witness ==
    /\ FirstBranchTarget = 1023
    /\ pc = "done"
    /\ n = 0
    /\ Len(rows) = 1
    /\ A = FromInt(0)
    /\ Halted

\* C2: when a store accumulator (/S) with operand P, executed with the
\* accumulator at V in 0 .. 2^40 - 1, is followed by a load (T/) with the same
\* operand P, the accumulator after the load is V.
C2_StoreThenLoad ==
    (pc = "check" /\ Len(rows) >= 2)
        => LET st == rows[Len(rows) - 1]
               ld == rows[Len(rows)]
           IN  ( /\ RowFunc(st) = << "/", "S" >>
                 /\ RowFunc(ld) = << "T", "/" >>
                 /\ RowOperand(st) = RowOperand(ld)
                 /\ BigGeq(st.A, FromInt(0))
                 /\ BigLess(st.A, max_acc_size) )
                   => A = st.A

\* C3: in every reachable state the accumulator A satisfies 0 <= A < 2^40.
C3_AccumulatorRange ==
    /\ BigGeq(A, FromInt(0))
    /\ BigLess(A, max_acc_size)

\* C4: the program counter is always in 0 .. 1023: it is 1023 until the first
\* fetch, a fetch leaves it at (C + 1) mod 1024 of the value before (so the
\* first instruction executed is the line at address 0), and an executed
\* unconditional branch leaves it at the value of the operand line mod 1024.
C4_ProgramCounter ==
    /\ C \in 0 .. 1023
    /\ (pc \in {"load", "loop", "fetch"} /\ n = 0) => C = 1023
    /\ pc = "apply" => C = (Cprev + 1) % 1024
    /\ (pc = "apply" /\ n = 0) => C = 0
    /\ (pc = "check" /\ RowFunc(rows[Len(rows)]) = << "/", "P" >>)
         => C = ToInt(symbols_to_int(memory[RowOperand(rows[Len(rows)])])) % 1024

\* a fetch that wraps from 1023 to 0 after a branch to 1023
C4_Witness ==
    /\ pc = "apply"
    /\ n >= 2
    /\ Cprev = 1023
    /\ C = 0
    /\ RowFunc(rows[Len(rows)]) = << "/", "P" >>

\* the text of the line the fetch read, as the store holds it
FetchedLine ==
    memory[<< symbols[(C % 32) + 1], symbols[(C \div 32) + 1] >>]

\* C5: when the fetched line's function code (its last two symbols) is none
\* of the recognised codes, applyInstruction ends the run in that cycle with
\* an InvalidInstructionError whose message carries exactly the 4 symbols of
\* the fetched line, no row is printed and n is not advanced; and once an
\* exception has ended the run nothing changes any more.
C5_InvalidInstruction ==
    [][ /\ (pc = "apply" /\ SubSeq(FetchedLine, 3, 4) \notin RecognisedCodes)
            => /\ pc' = "crashed"
               /\ err'.kind = "InvalidInstructionError"
               /\ Len(FetchedLine) = 4
               /\ err'.msg = << "Instruction ", FetchedLine, " does not exist!" >>
               /\ n' = n
               /\ rows' = rows
               /\ output' = output
        /\ pc = "crashed" => UNCHANGED vars
      ]_vars

C5_Witness ==
    /\ pc = "crashed"
    /\ n = 1
    /\ err = [kind |-> "InvalidInstructionError",
              msg  |-> << "Instruction ", << "#", "#", "H", "/" >>,
                          " does not exist!" >>]

\* the cycles started so far: n counts the cycles that ended without a halt
\* or an exception
Started ==
    n + (IF \/ pc \in {"fetch", "apply", "check"}
            \/ (pc = "done" /\ Halted)
            \/ (pc = "crashed" /\ err.kind = "InvalidInstructionError")
         THEN 1
         ELSE 0)

\* a measure of the work left when the step bound is positive: four steps
\* for every cycle not yet started, the steps left in the current cycle, and
\* the file lines still to load
Remaining ==
    CASE pc \in {"done", "crashed"} -> 0
      [] pc = "load"  -> 4 * steps + 5 + (Len(codefile) - loaded)
      [] pc = "loop"  -> 4 * (steps - n) + 4
      [] pc = "fetch" -> 4 * (steps - n) + 3
      [] pc = "apply" -> 4 * (steps - n) + 2
      [] pc = "check" -> 4 * (steps - n) + 1

\* C6: with a step bound k > 0 the run never starts more than k cycles; it
\* ends at the first cycle that detects a halting loop or raises, and
\* otherwise after exactly k cycles; with step bound 0 it ends only by a
\* halting loop or an exception.  With k > 0 the run cannot go on for ever:
\* every step lowers a measure that is never negative and is 0 only when the
\* run has ended.
C6_StepBound ==
    /\ [] /\ steps > 0 => Started <= steps
          /\ (pc = "done" /\ steps > 0 /\ ~Halted) => n = steps
          /\ (pc = "done" /\ steps = 0) => Halted
          /\ Halted => (pc = "done" /\ Len(rows) = n + 1)
          /\ pc = "crashed" => Len(rows) = n
          /\ steps > 0 => /\ Remaining >= 0
                          /\ Remaining = 0 <=> pc \in {"done", "crashed"}
    /\ [][steps > 0 => Remaining' < Remaining]_vars

\* a run that the step bound ended after exactly two cycles
C6_Witness ==
    /\ pc = "done"
    /\ steps = 2
    /\ n = 2
    /\ Len(rows) = 2
    /\ ~Halted

\* the base-32 digit of v at symbol position k (1 = least significant); v is
\* below 2^20, so the digits from position 5 on are zero
DigitAt(v, k) ==
    IF k > 4 THEN 0 ELSE (v \div (32 ^ (k - 1))) % 32

\* C7: int_to_symbols(n, w) is exactly w symbols long, and its k-th symbol is
\* the k-th least-significant base-32 digit of n mod 2^20 (so zero padding
\* when fewer are needed, and the high-order symbols dropped when more are).
C7_EncodeExactWidth ==
    cpc = "int_enc"
        => /\ Len(csym) = cwidth
           /\ \A k \in 1 .. cwidth : csym[k] = symbols[DigitAt(cnum.lo, k) + 1]

\* C8: for every well-formed text s, of any length,
\* int_to_symbols(symbols_to_int(s), len(s)) = s.
C8_EncodeDecode ==
    cpc = "sym_dec_enc" => cout.sym = csym

\* ceil(log32(v + 1)) for 0 <= v < 2^20
NeededWidth(v) ==
    CHOOSE w \in 0 .. 4 : (32 ^ w) > v /\ \A u \in 0 .. (w - 1) : (32 ^ u) <= v

\* C9: for every n in 0 .. 2^20 - 1 and every width w >= ceil(log32(n + 1)),
\* symbols_to_int(int_to_symbols(n, w)) = n.
C9_DecodeEncode ==
    (cpc = "int_enc_dec" /\ cnum.hi = 0 /\ cwidth >= NeededWidth(cnum.lo))
        => cout.num = cnum

\* the largest line value at a width with padding
C9_Witness ==
    /\ cpc = "int_enc_dec"
    /\ cnum = [lo |-> (2 ^ 20) - 1, hi |-> 0]
    /\ cwidth = 6
    /\ csym = << "#", "#", "#", "#", "/", "/" >>
    /\ cout.num = cnum

\* the alphabet as a set
Alphabet ==
    { symbols[j] : j \in 1 .. Len(symbols) }

\* a valid address (at most 2 symbols) and a valid value of 1 to 8 symbols
ValidSetInput(loc, val) ==
    /\ Len(loc) <= 2
    /\ Len(val) \in 1 .. 8
    /\ \A k \in 1 .. Len(loc) : loc[k] \in Alphabet
    /\ \A k \in 1 .. Len(val) : val[k] \in Alphabet

\* the number an address text of at most 2 symbols denotes
AddressOf(loc) ==
    (IF Len(loc) >= 1 THEN SymIndex(loc[1]) ELSE 0)
        + 32 * (IF Len(loc) >= 2 THEN SymIndex(loc[2]) ELSE 0)

\* the 2-symbol text of address x in 0 .. 1023
KeyOf(x) ==
    << symbols[(x % 32) + 1], symbols[(x \div 32) + 1] >>

\* chunk i (from 0) of val, right-padded with the zero symbol to 4 symbols
ChunkOf(val, i) ==
    [j \in 1 .. 4 |-> IF 4 * i + j <= Len(val) THEN val[4 * i + j] ELSE "/"]

\* m2 is m with chunk i of val at address (a + i) mod 1024, for every chunk,
\* and nothing else changed
SetPost(m, m2, loc, val) ==
    LET a       == AddressOf(loc)
        nchunks == (Len(val) + 3) \div 4
        written == { KeyOf((a + i) % 1024) : i \in 0 .. (nchunks - 1) }
    IN  /\ DOMAIN m2 = (DOMAIN m) \cup written
        /\ \A i \in 0 .. (nchunks - 1) : m2[KeyOf((a + i) % 1024)] = ChunkOf(val, i)
        /\ \A k \in (DOMAIN m) \ written : m2[k] = m[k]

\* C10: EStore.set with a valid address and a valid value of 1 to 8 symbols,
\* called by EStore.load or by the store instruction, raises nothing, writes
\* chunk i (the last one right-padded with the zero symbol) to address
\* (a + i) mod 1024 and changes no other address.
C10_SetWrites ==
    [][ /\ ( /\ pc = "load"
             /\ loaded < Len(codefile)
             /\ ValidSetInput(codefile[loaded + 1][1], codefile[loaded + 1][2]) )
            => /\ pc' = "load"
               /\ err' = err
               /\ loaded' = loaded + 1
               /\ SetPost(memory, memory',
                          codefile[loaded + 1][1], codefile[loaded + 1][2])
        /\ (pc = "apply" /\ func_sym = << "/", "S" >>)
            => /\ pc' = "check"
               /\ SetPost(get_s_pair_data.mem, memory', line_pair, acc_symbols)
      ]_vars

\* a two-line value written at address 1023: its second line is at address 0
C10_Witness ==
    /\ pc = "load"
    /\ loaded = 1
    /\ Len(codefile) = 1
    /\ codefile[1] = << << "#", "#" >>,
                        << "S", "/", "/", "/", "E", "/", "/", "/" >> >>
    /\ DOMAIN memory = { << "#", "#" >>, << "/", "/" >> }
    /\ memory[<< "#", "#" >>] = << "S", "/", "/", "/" >>
    /\ memory[<< "/", "/" >>] = << "E", "/", "/", "/" >>

\* the all-zero-symbol line
ZeroLine ==
    << "/", "/", "/", "/" >>

\* the addresses written so far: by the file lines EStore.load has passed to
\* EStore.set, and by the store instructions executed (operand address and
\* the one after it)
WrittenKeys ==
    (DOMAIN LoadedStore(codefile, loaded))
        \cup UNION { { KeyOf(AddressOf(RowOperand(rows[j]))),
                       KeyOf((AddressOf(RowOperand(rows[j])) + 1) % 1024) } :
                     j \in { i \in 1 .. Len(rows) : RowFunc(rows[i]) = << "/", "S" >> } }

\* m2 is m after a get of `lines` lines from address a: the addresses read
\* that m lacks are added with the all-zero line, and nothing else differs
GetPost(m, m2, a, lines) ==
    LET keys == { KeyOf((a + i) % 1024) : i \in 0 .. (lines - 1) }
    IN  /\ DOMAIN m2 = (DOMAIN m) \cup keys
        /\ \A k \in DOMAIN m : m2[k] = m[k]
        /\ \A k \in keys \ (DOMAIN m) : m2[k] = ZeroLine

\* C11: a get of an address the store lacks returns the all-zero line (the
\* fetch leaves S = 0) and adds exactly that address, holding the all-zero
\* line, to the store; a get of an address the store holds returns the line
\* held and leaves the store as it is.  So every address that was only ever
\* read keeps the all-zero line, whatever gets came in between.
C11_DefaultFill ==
    /\ [] \A k \in (DOMAIN memory) \ WrittenKeys : memory[k] = ZeroLine
    /\ [][ /\ pc = "fetch"
               => /\ GetPost(memory, memory', (C + 1) % 1024, 1)
                  /\ S' = ToInt(symbols_to_int(memory'[KeyOf((C + 1) % 1024)]))
                  /\ (KeyOf((C + 1) % 1024) \notin DOMAIN memory) => (S' = 0)
                  /\ (KeyOf((C + 1) % 1024) \in DOMAIN memory) => (memory' = memory)
           /\ (pc = "apply" /\ func_sym # << "/", "S" >>)
               => /\ GetPost(memory, memory', S % 1024, 2)
                  /\ ({ KeyOf(S % 1024), KeyOf((S + 1) % 1024) } \subseteq DOMAIN memory)
                       => (memory' = memory)
          ]_vars

\* address 1 was added by the operand read of the first cycle, fetched in the
\* second cycle as the all-zero line, and read again as an operand
C11_Witness ==
    /\ pc = "crashed"
    /\ n = 1
    /\ codefile = << << << "/", "/" >>, << "E", "/", "T", "#" >> >> >>
    /\ S = 0
    /\ DOMAIN memory = { << "/", "/" >>, << "E", "/" >>, << "@", "/" >> }
    /\ << "E", "/" >> \notin WrittenKeys
    /\ memory[<< "E", "/" >>] = ZeroLine
    /\ memory[<< "@", "/" >>] = ZeroLine

\* an address of more than 2 symbols, a value of more than 8 symbols, or a
\* character outside the alphabet in either
BadSetInput(loc, val) ==
    \/ Len(loc) > 2
    \/ Len(val) > 8
    \/ \E k \in 1 .. Len(loc) : loc[k] \notin Alphabet
    \/ \E k \in 1 .. Len(val) : val[k] \notin Alphabet

\* C12: EStore.set called with an address of more than 2 symbols, a value
\* of more than 8 symbols, or a character outside the alphabet raises an
\* AssertionError and leaves the store exactly as it was: after the
\* rejection the store holds what the lines accepted before it wrote, and no
\* line of the rejected value.
C12_SetRejects ==
    /\ [] ((pc = "crashed" /\ err.kind = "AssertionError")
              => /\ loaded < Len(codefile)
                 /\ BadSetInput(codefile[loaded + 1][1], codefile[loaded + 1][2])
                 /\ memory = LoadedStore(codefile, loaded))
    /\ [][ ( /\ pc = "load"
             /\ loaded < Len(codefile)
             /\ BadSetInput(codefile[loaded + 1][1], codefile[loaded + 1][2]) )
            => /\ pc' = "crashed"
               /\ err'.kind = "AssertionError"
               /\ memory' = memory
               /\ loaded' = loaded
          ]_vars

\* a 9-symbol value rejected after an earlier line wrote two addresses
C12_Witness ==
    /\ pc = "crashed"
    /\ err.kind = "AssertionError"
    /\ loaded = 1
    /\ Len(codefile) = 2
    /\ Len(codefile[2][2]) = 9
    /\ DOMAIN memory = { << "#", "#" >>, << "/", "/" >> }
    /\ memory[<< "#", "#" >>] = << "E", "/", "T", "/" >>
    /\ memory[<< "/", "/" >>] = << "E", "/", "/", "/" >>

\* the value of the line the store m holds at address x (0 when it holds
\* none), a number below 2^20
LineValue(m, x) ==
    IF KeyOf(x % 1024) \in DOMAIN m
    THEN LET l == m[KeyOf(x % 1024)]
         IN  SymIndex(l[1]) + 32 * SymIndex(l[2]) + 1024 * SymIndex(l[3])
                 + 32768 * SymIndex(l[4])
    ELSE 0

\* twice the 40-bit value [lo, hi], modulo 2^40
DoubledMod40(lo, hi) ==
    [lo |-> (2 * lo) % (2 ^ 20),
     hi |-> (2 * hi + (2 * lo) \div (2 ^ 20)) % (2 ^ 20)]

\* C13: executing TK with operand P leaves the accumulator at
\* (2 x v) mod 2^40, v being the 40-bit value of the lines at P (low 20
\* bits) and P + 1 (high 20 bits), whatever the accumulator was before;
\* with v = 2^40 - 1 the accumulator becomes 2^40 - 2.
C13_Double ==
    [][ (pc = "apply" /\ func_sym = << "T", "K" >>)
            => LET lo == LineValue(memory, S % 1024)
                   hi == LineValue(memory, (S % 1024) + 1)
               IN  /\ A' = DoubledMod40(lo, hi)
                   /\ (lo = (2 ^ 20) - 1 /\ hi = (2 ^ 20) - 1)
                        => (A' = [lo |-> (2 ^ 20) - 2, hi |-> (2 ^ 20) - 1])
      ]_vars

\* 2^40 - 1 doubled, with the accumulator at 2^40 - 1 before
C13_Witness ==
    /\ pc = "check"
    /\ Len(rows) = 2
    /\ RowFunc(rows[2]) = << "T", "K" >>
    /\ rows[2].A = [lo |-> (2 ^ 20) - 1, hi |-> (2 ^ 20) - 1]
    /\ LineValue(memory, AddressOf(RowOperand(rows[2]))) = (2 ^ 20) - 1
    /\ LineValue(memory, AddressOf(RowOperand(rows[2])) + 1) = (2 ^ 20) - 1
    /\ A = [lo |-> (2 ^ 20) - 2, hi |-> (2 ^ 20) - 1]

\* the 40-bit value of the lines the store holds at addresses x and x + 1
PairValue(m, x) ==
    [lo |-> LineValue(m, x), hi |-> LineValue(m, x + 1)]

\* C14: when an add (TI) executed with the accumulator at a in 0 .. 2^40 - 1
\* is followed by a subtract (TN) with the same operand address, nothing
\* having written the operand in between, the accumulator is a + v between
\* the two (v the 40-bit operand value) and a again after the subtract; from
\* accumulator 0 with operand value 5 it ends at 0.
C14_AddThenSubtract ==
    (pc = "check" /\ Len(rows) >= 2)
        => LET ad == rows[Len(rows) - 1]
               sb == rows[Len(rows)]
               v  == PairValue(memory, AddressOf(RowOperand(ad)))
           IN  ( /\ RowFunc(ad) = << "T", "I" >>
                 /\ RowFunc(sb) = << "T", "N" >>
                 /\ RowOperand(ad) = RowOperand(sb)
                 /\ BigGeq(ad.A, FromInt(0))
                 /\ BigLess(ad.A, max_acc_size) )
                   => /\ sb.A = BigAdd(ad.A, v)
                      /\ A = ad.A
                      /\ (ad.A = FromInt(0) /\ v = FromInt(5)) => (A = FromInt(0))

\* add 5 to 0, subtract 5
C14_Witness ==
    /\ pc = "check"
    /\ Len(rows) = 2
    /\ RowFunc(rows[1]) = << "T", "I" >>
    /\ RowFunc(rows[2]) = << "T", "N" >>
    /\ RowOperand(rows[1]) = RowOperand(rows[2])
    /\ PairValue(memory, AddressOf(RowOperand(rows[1]))) = FromInt(5)
    /\ rows[1].A = FromInt(0)
    /\ rows[2].A = FromInt(5)
    /\ A = FromInt(0)

\* add 2^40 - 1 to 2^40 - 1, subtract 2^40 - 1
C14_WitnessLarge ==
    /\ pc = "check"
    /\ Len(rows) = 3
    /\ RowFunc(rows[2]) = << "T", "I" >>
    /\ RowFunc(rows[3]) = << "T", "N" >>
    /\ rows[2].A = [lo |-> (2 ^ 20) - 1, hi |-> (2 ^ 20) - 1]
    /\ rows[3].A = [lo |-> (2 ^ 20) - 2, hi |-> (2 ^ 21) - 1]
    /\ A = rows[2].A

\* C15: when the fetched line's function code is TF, applyInstruction ends
\* the run in that cycle (no row is printed, n is not advanced), and the
\* error raised is of another kind than the InvalidInstructionError raised
\* for an unrecognised function code.
C15_Unimplemented ==
    [][ (pc = "apply" /\ SubSeq(FetchedLine, 3, 4) = << "T", "F" >>)
            => /\ pc' = "crashed"
               /\ n' = n
               /\ rows' = rows
               /\ output' = output
               /\ err'.kind \notin { "none", "InvalidInstructionError" }
      ]_vars

\* C16: an executed conditional branch (/H) leaves the program counter at
\* the address of the branch itself (the fetch-incremented value) exactly
\* when the accumulator, taken as its non-negative residue modulo 2^40, is
\* at least 2^39, and otherwise at the value of the operand line modulo
\* 1024; so after clear and subtract 1 it falls through.
C16_ConditionalBranch ==
    (pc = "check" /\ RowFunc(rows[Len(rows)]) = << "/", "H" >>)
        => LET r       == rows[Len(rows)]
               residue == ModAcc(r.A)
               own     == AddressOf(r.line_no)
               target  == LineValue(memory, AddressOf(RowOperand(r))) % 1024
           IN  C = IF BigGeq(residue, Pow2(39)) THEN own ELSE target

\* C17: the execute step of the no-op (function code T and the pound sign)
\* leaves the accumulator, S, the program counter and the store, the set of
\* addresses it holds included, as they were after the fetch.
C17_NoOp ==
    [][ (pc = "apply" /\ func_sym = << "T", "#" >>)
            => /\ pc' = "check"
               /\ A' = A
               /\ S' = S
               /\ C' = C
               /\ DOMAIN memory' = DOMAIN memory
               /\ memory' = memory
      ]_vars

\* the block shows the store m: one text per address m holds, made of the
\* address, a space and the line held
ShowsStore(block, m) ==
    /\ \A k \in DOMAIN m : (k \o << " " >> \o m[k]) \in block.lines
    /\ Cardinality(block.lines) = Cardinality(DOMAIN m)

\* C18: with the memory dump enabled the file receives one block per cycle
\* started, labelled 0, 1, 2, ... in this order; the block labelled n is
\* appended when cycle n is entered, after everything cycle n - 1 did and
\* before the fetch of cycle n, and shows the store exactly as that fetch
\* finds it; no other step touches the file, and without the option nothing
\* is written.
C18_Snapshot ==
    /\ [] /\ ~memdump => dumpfile = << >>
          /\ memdump => Len(dumpfile) = Started
          /\ \A i \in 1 .. Len(dumpfile) : dumpfile[i].step = i - 1
          /\ (memdump /\ pc = "fetch")
               => /\ dumpfile[Len(dumpfile)].step = n
                  /\ ShowsStore(dumpfile[Len(dumpfile)], memory)
    /\ [][ /\ (memdump /\ pc = "loop" /\ pc' = "fetch")
               => /\ Len(dumpfile') = Len(dumpfile) + 1
                  /\ SubSeq(dumpfile', 1, Len(dumpfile)) = dumpfile
                  /\ dumpfile'[Len(dumpfile')].step = n
                  /\ ShowsStore(dumpfile'[Len(dumpfile')], memory)
                  /\ memory' = memory
           /\ ~(pc = "loop" /\ pc' = "fetch") => dumpfile' = dumpfile
           /\ (pc = "check" /\ pc' = "loop") => (memory' = memory /\ n' = n + 1)
          ]_vars

\* the third block, taken after a store instruction changed the store in the
\* second cycle
C18_Witness ==
    /\ memdump
    /\ pc = "fetch"
    /\ n = 2
    /\ Len(dumpfile) = 3
    /\ dumpfile[3].step = 2
    /\ RowFunc(rows[2]) = << "/", "S" >>
    /\ dumpfile[3].lines # dumpfile[2].lines
    /\ ShowsStore(dumpfile[3], memory)

\* the row is of an unconditional branch, or of a conditional branch
\* executed with the accumulator outside 2^39 .. 2^40 - 1, so taken
TakenBranch(r) ==
    \/ RowFunc(r) = << "/", "P" >>
    \/ /\ RowFunc(r) = << "/", "H" >>
       /\ ~(BigLess(r.A, Pow2(40)) /\ BigGeq(r.A, Pow2(39)))

\* the value of the operand line of the row, modulo 1024
BranchTarget(r) ==
    LineValue(memory, AddressOf(RowOperand(r))) % 1024

\* C19: at the end of a cycle the program counter saved before the fetch is
\* the address of the instruction executed minus 1 modulo 1024, and the
\* program counter equals it exactly when the instruction was a branch taken
\* (/P, or /H with the accumulator outside 2^39 .. 2^40 - 1) whose target,
\* the operand line's value modulo 1024, is that saved value; after any
\* other instruction the program counter is the instruction's own address
\* and differs from the saved one.  The run ends by halting-loop detection
\* only in the first case, and in every other case the cycle is followed by
\* the next loop test.
C19_HaltingLoopOnly ==
    /\ [] /\ pc = "check"
               => LET r   == rows[Len(rows)]
                      own == AddressOf(r.line_no)
                  IN  /\ Cprev = (own + 1023) % 1024
                      /\ (C = Cprev) <=> (TakenBranch(r) /\ BranchTarget(r) = Cprev)
                      /\ ~TakenBranch(r) => (C = own /\ C # Cprev)
          /\ Halted
               => /\ pc = "done"
                  /\ C = Cprev
                  /\ TakenBranch(rows[Len(rows)])
                  /\ BranchTarget(rows[Len(rows)]) = Cprev
    /\ [][ /\ (pc = "check" /\ C # Cprev)
               => (pc' = "loop" /\ n' = n + 1 /\ output' = output)
           /\ (pc = "check" /\ C = Cprev)
               => (pc' = "done" /\ output' = output \o << "Halting loop detected.", "HALT" >>)
          ]_vars

\* a conditional branch at address 1, taken with the accumulator 0 to
\* address 0, ends the run in the second cycle
C19_Witness ==
    /\ Halted
    /\ n = 1
    /\ Len(rows) = 2
    /\ RowFunc(rows[1]) = << "T", "#" >>
    /\ RowFunc(rows[2]) = << "/", "H" >>
    /\ rows[2].line_no = << "E", "/" >>
    /\ Cprev = 0
    /\ C = 0

\* the 4-symbol numeral of v in 0 .. 2^20 - 1
LineOf(v) ==
    [k \in 1 .. 4 |-> symbols[DigitAt(v, k) + 1]]

====
